---------------------------- MODULE Spec2Model ----------------------------
(***************************************************************************)
(* structalize (src/src/struct.ts): a struct template compiler (struct),   *)
(* and the typed-array based new / read / write of instances on byte       *)
(* buffers.                                                                *)
(*                                                                         *)
(* JavaScript numbers that the code computes with are modelled as          *)
(* integers; the one non-integer the layout code can produce,              *)
(* Math.ceil(0 / 0) * 0 = NaN, is the value NaN below and every comparison *)
(* with it goes through the Js* operators, which follow IEEE semantics.    *)
(***************************************************************************)
EXTENDS Integers, Sequences, FiniteSets, TLC

VARIABLES
    decl,        \* the Member[] the caller passed to struct()
    template,    \* the StructTemplate struct() returned (NoTemplate before)
    inst,        \* the instance the caller built with struct.new
    msg,         \* the instance the caller's last struct.read returned
    store,       \* bytes of the ArrayBuffer that owns the caller's buffer
    byteOffset,  \* start of the caller's buffer within store
    byteLength,  \* length of the caller's buffer
    op,          \* the last operation called
    err          \* how it ended: "ok" or the error thrown

vars == <<decl, template, inst, msg, store, byteOffset, byteLength, op, err>>

-----------------------------------------------------------------------------
(* Bounds of the model.                                                    *)

\* longest generated field list
MaxFields == 2
\* largest generated count of a field
MaxCount == 2

-----------------------------------------------------------------------------
(* Type registry.                                                          *)

\* keys of TypedArray, in declaration order
PropertyType ==
    {"i8", "u8", "u8_clamped", "i16", "u16", "i32", "u32", "i64", "u64",
     "f32", "f64"}

\* keys that TypedArray, an object literal, inherits from Object.prototype:
\* TypedArray[key] is then a value that has no BYTES_PER_ELEMENT
ObjectPrototypeKeys == {"constructor", "toString"}

\* the number every arithmetic use of undefined, x / 0 * 0 and the like
\* evaluate to
NaN == -1

\* TypedArray[type].BYTES_PER_ELEMENT as the arithmetic of struct() uses
\* it: undefined, hence NaN, on a key inherited from Object.prototype
BYTES_PER_ELEMENT(type) ==
    CASE type \in {"i8", "u8", "u8_clamped"} -> 1
      [] type \in {"i16", "u16"} -> 2
      [] type \in {"i32", "u32", "f32"} -> 4
      [] type \in {"i64", "u64", "f64"} -> 8
      [] type \in ObjectPrototypeKeys -> NaN

\* PropertyType[type] as a property key: the type itself for a key of
\* TypedArray, the source text of a function for a key PropertyType inherits
\* from Object.prototype, and "undefined" for any other
PropertyTypeOf(type) ==
    IF type \in PropertyType THEN type
    ELSE IF type \in ObjectPrototypeKeys THEN "function () { [native code] }"
    ELSE "undefined"

\* prop(type, name, count)
prop(type, name, count) ==
    [type |-> PropertyTypeOf(type), name |-> name, count |-> count]

-----------------------------------------------------------------------------
(* JavaScript number arithmetic used by the layout code.                   *)

\* JsLess that lets a buffer one byte short pass
JsLess_offByOne(a, b) == a # NaN /\ b # NaN /\ a + 1 < b

\* a < b on numbers: false when either side is NaN
JsLess(a, b) == a # NaN /\ b # NaN /\ a < b

\* JsModNonZero taking a % 0 for 0
JsModNonZero_zeroDivides(a, b) ==
    IF a = NaN \/ b = NaN THEN TRUE ELSE IF b = 0 THEN FALSE ELSE a % b # 0

\* a % b !== 0 on numbers: a % 0 and NaN % b are NaN, and NaN !== 0
JsModNonZero(a, b) == IF a = NaN \/ b = NaN \/ b = 0 THEN TRUE ELSE a % b # 0

\* MathMax returning the smaller of two sizes
MathMax_min(a, b) == IF a = 0 THEN b ELSE IF a <= b THEN a ELSE b

\* Math.max(a, b): NaN when either side is
MathMax(a, b) == IF a = NaN \/ b = NaN THEN NaN ELSE IF a >= b THEN a ELSE b

\* a + b, a * b and a / b on numbers (b divides a wherever the code
\* divides)
JsAdd(a, b) == IF a = NaN \/ b = NaN THEN NaN ELSE a + b
JsMul(a, b) == IF a = NaN \/ b = NaN THEN NaN ELSE a * b
JsDiv(a, b) == IF a = NaN \/ b = NaN \/ b = 0 THEN NaN ELSE a \div b

\* alignTo with Math.floor in place of Math.ceil
alignTo_floor(size, alignment) ==
    IF size = NaN \/ alignment = NaN \/ alignment = 0
    THEN NaN
    ELSE (size \div alignment) * alignment

\* Math.ceil(size / alignment) * alignment
alignTo(size, alignment) ==
    IF size = NaN \/ alignment = NaN \/ alignment = 0
    THEN NaN
    ELSE ((size + alignment - 1) \div alignment) * alignment

-----------------------------------------------------------------------------
(* struct(schema): the template compiler.                                  *)

NoTemplate == [none |-> TRUE]

\* const result = { size: 0, alignment: 0, schema: {} }; keys is the
\* insertion order of result.schema's properties, which for...in follows
EmptyTemplate == [size |-> 0, alignment |-> 0, schema |-> <<>>, keys |-> <<>>]

\* structStep keeping the entry a name already has
structStep_keepFirst(result, member) ==
    LET elementSize == BYTES_PER_ELEMENT(member.type)
        size        == alignTo(result.size, elementSize)
        entry       == [type  |-> member.type,
                        count |-> member.count,
                        index |-> JsDiv(size, elementSize)]
    IN  [size      |-> JsAdd(size, JsMul(elementSize, member.count)),
         alignment |-> MathMax(result.alignment, elementSize),
         schema    |-> result.schema @@ (member.name :> entry),
         keys      |-> IF member.name \in DOMAIN result.schema
                       THEN result.keys
                       ELSE Append(result.keys, member.name)]

\* structStep advancing the size by one element, whatever the count
structStep_oneElement(result, member) ==
    LET elementSize == BYTES_PER_ELEMENT(member.type)
        size        == alignTo(result.size, elementSize)
        entry       == [type  |-> member.type,
                        count |-> member.count,
                        index |-> JsDiv(size, elementSize)]
    IN  [size      |-> JsAdd(size, elementSize),
         alignment |-> MathMax(result.alignment, elementSize),
         schema    |-> (member.name :> entry) @@ result.schema,
         keys      |-> IF member.name \in DOMAIN result.schema
                       THEN result.keys
                       ELSE Append(result.keys, member.name)]

\* one iteration of the loop over the members
structStep(result, member) ==
    LET elementSize == BYTES_PER_ELEMENT(member.type)
        size        == alignTo(result.size, elementSize)
        entry       == [type  |-> member.type,
                        count |-> member.count,
                        index |-> JsDiv(size, elementSize)]
    IN  [size      |-> JsAdd(size, JsMul(elementSize, member.count)),
         alignment |-> MathMax(result.alignment, elementSize),
         schema    |-> (member.name :> entry) @@ result.schema,
         keys      |-> IF member.name \in DOMAIN result.schema
                       THEN result.keys
                       ELSE Append(result.keys, member.name)]

\* the call ends by throwing: TypedArray[type] is undefined for a type that
\* is no key of TypedArray, and reading its BYTES_PER_ELEMENT a TypeError
Thrown(error) == [thrown |-> error]
IsThrown(result) == "thrown" \in DOMAIN result

RECURSIVE structLoop(_, _, _)
structLoop(schema, i, result) ==
    IF i > Len(schema)
    THEN result
    ELSE IF schema[i].type \notin PropertyType \cup ObjectPrototypeKeys
    THEN Thrown("TypeError")
    ELSE structLoop(schema, i + 1, structStep(result, schema[i]))

\* result.size = alignTo(result.size, result.alignment); return result
structFinish(result) ==
    IF IsThrown(result)
    THEN result
    ELSE [result EXCEPT !.size = alignTo(result.size, result.alignment)]

struct(schema) == structFinish(structLoop(schema, 1, EmptyTemplate))

-----------------------------------------------------------------------------
(* Element values and their byte encodings.                                *)
(*                                                                         *)
(* An element value is [big, n]: big tells a BigInt from a Number, and n   *)
(* is <<v>> for an integer v with |v| < 2^31, or else the little-endian    *)
(* bytes of the value in its own element type (a 32-/64-bit integer        *)
(* beyond that range, or a float that is no such integer).                 *)

\* typeof new TypedArray[type](1)[0] === "bigint"
IsBig(type) == type \in {"i64", "u64"}

IsFloat(type) == type \in {"f32", "f64"}

IsSigned(type) == type \in {"i8", "i16", "i32", "i64"}

\* mantissa and exponent field widths, exponent bias (IEEE 754 binary32/64)
MantissaBits(type) == IF type = "f32" THEN 23 ELSE 52
ExponentBits(type) == IF type = "f32" THEN 8 ELSE 11
ExponentBias(type) == IF type = "f32" THEN 127 ELSE 1023

Num(type, v) == [k |-> "scalar", big |-> IsBig(type), n |-> <<v>>]
Raw(type, bytes) == [k |-> "scalar", big |-> IsBig(type), n |-> bytes]

\* bit j of the non-negative integer x
Bit(x, j) == (x \div (2 ^ j)) % 2

\* the w low bytes of the two's complement of v, little-endian
IntBytes(v, w) ==
    [i \in 1..w |-> IF i <= 4 THEN (v \div (256 ^ (i - 1))) % 256
                    ELSE IF v < 0 THEN 255 ELSE 0]

\* ToUint8Clamp on an integer
Clamp(v) == IF v < 0 THEN 0 ELSE IF v > 255 THEN 255 ELSE v

\* floor(log2(a)) for 0 < a < 2^31
Log2(a) == CHOOSE e \in 0..30 : a \div (2 ^ e) = 1

\* the float nearest to the integer v # 0 (ties to even), as
\* [sig, exp, p]: |value| = sig * 2^(exp - p), sig has p + 1 bits
FloatOf(type, v) ==
    LET a == IF v < 0 THEN 0 - v ELSE v
        e == Log2(a)
        M == MantissaBits(type)
    IN  IF e <= M
        THEN [sig |-> a, exp |-> e, p |-> e]
        ELSE LET shift == e - M
                 q     == a \div (2 ^ shift)
                 r     == a % (2 ^ shift)
                 half  == 2 ^ (shift - 1)
                 up    == r > half \/ (r = half /\ q % 2 = 1)
                 q2    == IF up THEN q + 1 ELSE q
             IN  IF q2 = 2 ^ (M + 1)
                 THEN [sig |-> 2 ^ M, exp |-> e + 1, p |-> M]
                 ELSE [sig |-> q2, exp |-> e, p |-> M]

\* the IEEE bytes of the integer v stored into a Float32Array/Float64Array
FloatBytes(type, v) ==
    LET M    == MantissaBits(type)
        w    == BYTES_PER_ELEMENT(type)
        f    == FloatOf(type, v)
        frac == f.sig - 2 ^ f.p
        X    == f.exp + ExponentBias(type)
        bitAt(i) ==
            IF i < M
            THEN IF i >= M - f.p THEN Bit(frac, i - (M - f.p)) ELSE 0
            ELSE IF i < 8 * w - 1 THEN Bit(X, i - M)
            ELSE IF v < 0 THEN 1 ELSE 0
    IN  IF v = 0
        THEN [k \in 1..w |-> 0]
        ELSE [k \in 1..w |->
                bitAt(8 * k - 8) + 2 * bitAt(8 * k - 7) + 4 * bitAt(8 * k - 6)
                + 8 * bitAt(8 * k - 5) + 16 * bitAt(8 * k - 4)
                + 32 * bitAt(8 * k - 3) + 64 * bitAt(8 * k - 2)
                + 128 * bitAt(8 * k - 1)]

\* view[i] = value: the bytes the typed array of this type stores
ToBytes(type, value) ==
    IF Len(value.n) > 1
    THEN value.n
    ELSE LET v == value.n[1]
         IN  CASE type = "u8_clamped" -> <<Clamp(v)>>
               [] IsFloat(type) -> FloatBytes(type, v)
               [] OTHER -> IntBytes(v, BYTES_PER_ELEMENT(type))

\* the integer a signed or unsigned element holds, when |it| < 2^31
IntOfBytes(type, b) ==
    LET w    == Len(b)
        top  == IF w >= 4 THEN b[4] ELSE b[w]
        neg  == IsSigned(type) /\ top >= 128
        low  == IF w = 1 THEN 0
                ELSE IF w = 2 THEN b[1]
                ELSE b[1] + 256 * b[2] + 65536 * b[3]
        high == IF neg THEN top - 256 ELSE top
    IN  low + high * (IF w = 1 THEN 1 ELSE IF w = 2 THEN 256 ELSE 16777216)

\* the element fits the integers of the model
IsSmallInt(type, b) ==
    LET w == Len(b)
    IN  IF w < 4 THEN TRUE
        ELSE IF IsSigned(type)
             THEN \A i \in 5..w : b[i] = (IF b[4] >= 128 THEN 255 ELSE 0)
             ELSE b[4] < 128 /\ \A i \in 5..w : b[i] = 0

\* value = view[i] for a float type
FloatOfBytes(type, b) ==
    LET M == MantissaBits(type)
        E == ExponentBits(type)
        bitAt(i) == Bit(b[(i \div 8) + 1], i % 8)
        RECURSIVE Field(_, _)
        \* the integer in bits from..from+n-1, n <= 30
        Field(from, n) ==
            IF n <= 0 THEN 0 ELSE bitAt(from) + 2 * Field(from + 1, n - 1)
        X    == Field(M, E)
        sign == bitAt(M + E)
        e    == X - ExponentBias(type)
        zero == sign = 0 /\ \A k \in 1..Len(b) : b[k] = 0
        int  == /\ e >= 0
                /\ e <= 30
                /\ \A i \in 0..(M - 1) : i < M - e => bitAt(i) = 0
        mag  == IF e <= M
                THEN 2 ^ e + Field(M - e, e)
                ELSE (2 ^ M + Field(0, M)) * 2 ^ (e - M)
    IN  IF zero THEN Num(type, 0)
        ELSE IF int THEN Num(type, IF sign = 1 THEN 0 - mag ELSE mag)
        ELSE Raw(type, b)

\* value = view[i]: the JavaScript value of the element stored in bytes b
FromBytes(type, b) ==
    IF IsFloat(type) THEN FloatOfBytes(type, b)
    ELSE IF IsSmallInt(type, b) THEN Num(type, IntOfBytes(type, b))
    ELSE Raw(type, b)

-----------------------------------------------------------------------------
(* Typed arrays.                                                           *)
(*                                                                         *)
(* A typed array is a window of `length` elements: either onto the         *)
(* caller's store from byte `begin` (shared), or onto a buffer of its own, *)
(* whose elements are then kept in elems.                                  *)

Undefined == [k |-> "undefined"]

NoInstance == [none |-> TRUE]

\* new TypedArray[type](store, begin, length)
ViewOn(type, begin, length) ==
    [k |-> "array", type |-> type, shared |-> TRUE,
     begin |-> begin, length |-> length, elems |-> <<>>]

\* a typed array on a fresh buffer holding the given element values
OwnArray(type, values) ==
    [k |-> "array", type |-> type, shared |-> FALSE,
     begin |-> 0, length |-> Len(values), elems |-> values]

\* the bytes of element i (from 0) of a shared array
ElementBytes(array, i, bytes) ==
    LET w  == BYTES_PER_ELEMENT(array.type)
        at == array.begin + i * w
    IN  SubSeq(bytes, at + 1, at + w)

\* array[i], i counted from 0
ElementAt(array, i, bytes) ==
    IF i < 0 \/ i >= array.length THEN Undefined
    ELSE IF array.shared THEN FromBytes(array.type, ElementBytes(array, i, bytes))
    ELSE array.elems[i + 1]

\* the elements of the array, in order
Elements(array, bytes) ==
    [j \in 1..array.length |-> ElementAt(array, j - 1, bytes)]

\* the store after array[i] = value on a shared array; an index past the
\* end is ignored
StoreElement(array, i, value, bytes) ==
    LET w  == BYTES_PER_ELEMENT(array.type)
        at == array.begin + i * w
    IN  IF i < 0 \/ i >= array.length THEN bytes
        ELSE SubSeq(bytes, 1, at) \o ToBytes(array.type, value)
                 \o SubSeq(bytes, at + w + 1, Len(bytes))

\* the value an element of this type holds after value is stored in it
Converted(type, value) == FromBytes(type, ToBytes(type, value))

\* new TypedArray[type](values): every value converted to the element type
NewTypedArray(type, values) ==
    OwnArray(type, [j \in 1..Len(values) |-> Converted(type, values[j])])

\* slice returning a window onto the same bytes, as subarray does
slice_shared(array, from, to, bytes) ==
    LET end == IF to > array.length THEN array.length ELSE to
        len == IF end > from THEN end - from ELSE 0
    IN  [array EXCEPT !.begin = array.begin + from * BYTES_PER_ELEMENT(array.type),
                      !.length = len]

\* array.slice(from, to): a copy of the elements on a buffer of its own
slice(array, from, to, bytes) ==
    LET end == IF to > array.length THEN array.length ELSE to
        len == IF end > from THEN end - from ELSE 0
    IN  OwnArray(array.type, [j \in 1..len |-> ElementAt(array, from + j - 1, bytes)])

RECURSIVE StoreElements(_, _, _, _, _)
StoreElements(array, source, offset, j, bytes) ==
    IF j > Len(source)
    THEN bytes
    ELSE StoreElements(array, source, offset, j + 1,
                       StoreElement(array, offset + j - 1, source[j], bytes))

\* array.set(source, offset): throws RangeError before writing anything
\* when source does not fit
set(array, source, offset, bytes) ==
    IF Len(source) + offset > array.length
    THEN [bytes |-> bytes, err |-> "RangeError"]
    ELSE [bytes |-> StoreElements(array, source, offset, 1, bytes), err |-> "ok"]

\* obj != null && typeof obj.length === "number" && obj.length >= 0
isArrayLike(obj) == obj.k = "array"

-----------------------------------------------------------------------------
(* createViews, struct.new, struct.read, struct.write.                     *)

\* the types of the members of the schema
TypesOf(tpl) == {tpl.schema[name].type : name \in DOMAIN tpl.schema}

\* createViews with every view at the start of the store
createViews_atZero(tpl, offset, length) ==
    IF JsModNonZero(offset, tpl.alignment)
    THEN [err |-> "MisalignedBuffer", views |-> <<>>]
    ELSE IF \E t \in TypesOf(tpl) : offset % BYTES_PER_ELEMENT(t) # 0
    THEN [err |-> "RangeError", views |-> <<>>]
    ELSE [err |-> "ok",
          views |-> [t \in TypesOf(tpl) |->
                        ViewOn(t, 0, length \div BYTES_PER_ELEMENT(t))]]

\* createViews testing the buffer's length, not its start, against the
\* alignment
createViews_checkLength(tpl, offset, length) ==
    IF JsModNonZero(length, tpl.alignment)
    THEN [err |-> "MisalignedBuffer", views |-> <<>>]
    ELSE IF \E t \in TypesOf(tpl) : offset % BYTES_PER_ELEMENT(t) # 0
    THEN [err |-> "RangeError", views |-> <<>>]
    ELSE [err |-> "ok",
          views |-> [t \in TypesOf(tpl) |->
                        ViewOn(t, offset, length \div BYTES_PER_ELEMENT(t))]]

\* createViews(buffer, template): one view per type on the whole buffer;
\* the typed array constructor rejects a start that is no multiple of its
\* element size
createViews(tpl, offset, length) ==
    IF JsModNonZero(offset, tpl.alignment)
    THEN [err |-> "MisalignedBuffer", views |-> <<>>]
    ELSE IF \E t \in TypesOf(tpl) : offset % BYTES_PER_ELEMENT(t) # 0
    THEN [err |-> "RangeError", views |-> <<>>]
    ELSE [err |-> "ok",
          views |-> [t \in TypesOf(tpl) |->
                        ViewOn(t, offset, length \div BYTES_PER_ELEMENT(t))]]

\* defaultValues with the number 0 for every type
defaultValues_number(type) == [k |-> "scalar", big |-> FALSE, n |-> <<0>>]

\* defaultValues[type] = new TypedArray[type](1)[0]
defaultValues(type) ==
    ElementAt(ViewOn(type, 0, 1), 0, [b \in 1..BYTES_PER_ELEMENT(type) |-> 0])

\* new TypedArray[type](count): zero-filled
ZeroArray(type, count) ==
    OwnArray(type, [j \in 1..count |-> defaultValues(type)])

\* new keeping a template of its own, with the size reset
new_resetSize(tpl) ==
    [template |-> [tpl EXCEPT !.size = 0],
     fields   |-> [name \in DOMAIN tpl.schema |->
                     LET member == tpl.schema[name]
                     IN  IF member.count = 1
                         THEN defaultValues(member.type)
                         ELSE ZeroArray(member.type, member.count)]]

\* struct.new(template)
new(tpl) ==
    [template |-> tpl,
     fields   |-> [name \in DOMAIN tpl.schema |->
                     LET member == tpl.schema[name]
                     IN  IF member.count = 1
                         THEN defaultValues(member.type)
                         ELSE ZeroArray(member.type, member.count)]]

\* the member loop of struct.read
readFields(tpl, views, bytes) ==
    [name \in DOMAIN tpl.schema |->
        LET member == tpl.schema[name]
        IN  IF member.count = 1
            THEN ElementAt(views[member.type], member.index, bytes)
            ELSE slice(views[member.type], member.index,
                       member.index + member.count, bytes)]

\* struct.read(template, buffer)
read(tpl, bytes, offset, length) ==
    IF JsLess(length, tpl.size)
    THEN [err |-> "InsufficientSpace", result |-> NoInstance]
    ELSE LET v == createViews(tpl, offset, length)
         IN  IF v.err # "ok"
             THEN [err |-> v.err, result |-> NoInstance]
             ELSE [err    |-> "ok",
                   result |-> [template |-> tpl,
                               fields   |-> readFields(tpl, v.views, bytes)]]

\* writeMember choosing by the member's count, and rejecting a sequence
\* where the count is 1
writeMember_byCount(tpl, fields, views, name, bytes) ==
    LET member == tpl.schema[name]
        value  == fields[name]
        view   == views[member.type]
    IN  IF member.count > 1
        THEN set(view, Elements(value, bytes), member.index, bytes)
        ELSE IF isArrayLike(value)
        THEN [bytes |-> bytes, err |-> "TypeError"]
        ELSE [bytes |-> StoreElement(view, member.index, value, bytes),
              err   |-> "ok"]

\* writeMember calling set without the member's index
writeMember_setAtZero(tpl, fields, views, name, bytes) ==
    LET member == tpl.schema[name]
        value  == fields[name]
        view   == views[member.type]
    IN  IF isArrayLike(value)
        THEN set(view, Elements(value, bytes), 0, bytes)
        ELSE [bytes |-> StoreElement(view, member.index, value, bytes),
              err   |-> "ok"]

\* one iteration of the member loop of struct.write
writeMember(tpl, fields, views, name, bytes) ==
    LET member == tpl.schema[name]
        value  == fields[name]
        view   == views[member.type]
    IN  IF isArrayLike(value)
        THEN set(view, Elements(value, bytes), member.index, bytes)
        ELSE [bytes |-> StoreElement(view, member.index, value, bytes),
              err   |-> "ok"]

RECURSIVE writeLoop(_, _, _, _, _)
writeLoop(tpl, fields, views, i, bytes) ==
    IF i > Len(tpl.keys)
    THEN [bytes |-> bytes, err |-> "ok"]
    ELSE LET r == writeMember(tpl, fields, views, tpl.keys[i], bytes)
         IN  IF r.err # "ok"
             THEN r
             ELSE writeLoop(tpl, fields, views, i + 1, r.bytes)

\* struct.write(struct, buffer)
write(instance, bytes, offset, length) ==
    LET tpl == instance.template
    IN  IF JsLess(length, tpl.size)
        THEN [bytes |-> bytes, err |-> "InsufficientSpace"]
        ELSE LET v == createViews(tpl, offset, length)
             IN  IF v.err # "ok"
                 THEN [bytes |-> bytes, err |-> v.err]
                 ELSE writeLoop(tpl, instance.fields, v.views, 1, bytes)

-----------------------------------------------------------------------------
(* Field lists the caller passes.                                          *)

\* names of generated members, by position
PropNames == <<"a", "b", "c", "d">>

\* the test suite's Message and BoundaryMessage, the README's MyStruct
Message ==
    <<prop("i64", "big", 1), prop("u8", "smol", 3), prop("f32", "float", 1)>>

BoundaryMessage == Append(Message, prop("f64", "double", 1))

MyStruct ==
    <<prop("i32", "id", 1), prop("f32", "value", 1), prop("u8", "flags", 4)>>

\* the schemas of the tests and the README
TestSchemas == {Message, BoundaryMessage, MyStruct}

\* what a generated member can be: a type and a count
MemberKinds == PropertyType \X (1..MaxCount)

\* the list whose i-th member has kind kinds[i] and the i-th name
GeneratedSchema(n, kinds) ==
    [i \in 1..n |-> prop(kinds[i][1], PropNames[i], kinds[i][2])]

\* type names that are no key of TypedArray: one that no object has, and
\* the keys inherited from Object.prototype
UnregisteredTypes == {"f16"} \cup ObjectPrototypeKeys

\* the generated list with one more member, of an unregistered type, at
\* position p: built by prop, or written as a Member literal
WithUnregistered(n, kinds, p, type, literal) ==
    LET rest   == GeneratedSchema(n, kinds)
        name   == PropNames[n + 1]
        member == IF literal
                  THEN [type |-> type, name |-> name, count |-> 1]
                  ELSE prop(type, name, 1)
    IN  SubSeq(rest, 1, p - 1) \o <<member>> \o SubSeq(rest, p, n)

\* the generated list whose last member repeats the name of member p
WithDuplicate(n, kinds, p) ==
    [GeneratedSchema(n, kinds) EXCEPT ![n].name = PropNames[p]]

-----------------------------------------------------------------------------
(* Values the caller assigns.                                              *)

\* FLOAT32_MAX_VALUE, the float with bits 0x7f7fffff
FLOAT32_MAX_VALUE == Raw("f32", <<255, 255, 127, 127>>)

\* a value of the type: "lo" and "hi" are values the type holds exactly
\* ("hi" of i64 is BigInt(Number.MAX_SAFE_INTEGER) + 1n, of f64
\* Number.MAX_VALUE, "lo" of f32 is 4.5, as in the tests); "odd" is a value
\* the type does not hold exactly, where the integers of the model have one
Sample(type, row) ==
    CASE type = "i8" ->
            Num(type, CASE row = "lo" -> 0 - 128 [] row = "hi" -> 127 [] OTHER -> 128)
      [] type \in {"u8", "u8_clamped"} ->
            Num(type, CASE row = "lo" -> 1 [] row = "hi" -> 255 [] OTHER -> 300)
      [] type = "i16" ->
            Num(type, CASE row = "lo" -> 0 - 32768 [] row = "hi" -> 32767 [] OTHER -> 32768)
      [] type = "u16" ->
            Num(type, CASE row = "lo" -> 1 [] row = "hi" -> 65535 [] OTHER -> 0 - 1)
      [] type = "i32" ->
            Num(type, IF row = "lo" THEN 0 - 2147483647 ELSE 2147483647)
      [] type = "u32" ->
            CASE row = "lo" -> Num(type, 1)
              [] row = "hi" -> Raw(type, <<255, 255, 255, 255>>)
              [] OTHER -> Num(type, 0 - 1)
      [] type = "i64" ->
            IF row = "lo" THEN Num(type, 0 - 1)
            ELSE Raw(type, <<0, 0, 0, 0, 0, 0, 32, 0>>)
      [] type = "u64" ->
            CASE row = "lo" -> Num(type, 1)
              [] row = "hi" -> Raw(type, <<255, 255, 255, 255, 255, 255, 255, 255>>)
              [] OTHER -> Num(type, 0 - 1)
      [] type = "f32" ->
            CASE row = "lo" -> Raw(type, <<0, 0, 144, 64>>)
              [] row = "hi" -> FLOAT32_MAX_VALUE
              [] OTHER -> Num(type, 16777217)
      [] type = "f64" ->
            IF row = "lo" THEN Num(type, 0 - 5)
            ELSE Raw(type, <<255, 255, 255, 255, 255, 255, 239, 127>>)

Rows == {"lo", "hi", "odd", "long", "boxed"}

\* the value a row gives a member: a scalar for count 1 and a typed array
\* of count elements otherwise; "long" gives every member a typed array of
\* count + 1 elements, "boxed" a one-element typed array to a member of
\* count 1
RowValue(member, row) ==
    LET base     == IF row \in {"long", "boxed"} THEN "hi" ELSE row
        other    == IF base = "lo" THEN "hi" ELSE "lo"
        elems(n) == [j \in 1..n |->
                        Sample(member.type, IF j % 2 = 1 THEN base ELSE other)]
    IN  IF row = "long"
        THEN NewTypedArray(member.type, elems(member.count + 1))
        ELSE IF member.count = 1 /\ row # "boxed"
        THEN Sample(member.type, base)
        ELSE NewTypedArray(member.type, elems(member.count))

-----------------------------------------------------------------------------
(* Field lists and buffers of the byte-level specification.                *)

\* one member of every type and count: alone, after a plain u8 (padding
\* before it) and before a plain u8 (padding after the last member)
PaddedSchemas ==
    UNION {{<<prop(t, "a", c)>>,
            <<prop("u8", "a", 1), prop(t, "b", c)>>,
            <<prop(t, "a", c), prop("u8", "b", 1)>>} :
              t \in PropertyType, c \in 1..MaxCount}

WireSchemas == {<<>>} \cup TestSchemas \cup PaddedSchemas

\* where the caller's buffer starts in its store
Offsets == {0, 1, 4, 8}

\* how long the caller's buffer is
Lengths(tpl) ==
    IF tpl.size = NaN THEN {0, 8}
    ELSE {n \in {tpl.size - 1, tpl.size, tpl.size + 1} : n >= 0}

\* the byte the caller fills a store with
FillBytes == {170}

-----------------------------------------------------------------------------
(* Operations.                                                             *)
(*                                                                         *)
(* The caller compiles one template, allocates one buffer (a view from     *)
(* byteOffset on a zero-filled store), builds one instance with struct.new *)
(* and assignments, and then writes and reads.                             *)

Init ==
    /\ decl = <<>>
    /\ template = NoTemplate
    /\ inst = NoInstance
    /\ msg = NoInstance
    /\ store = <<>>
    /\ byteOffset = 0
    /\ byteLength = 0
    /\ op = "init"
    /\ err = "ok"

\* const T = struct(schema)
CallStruct(schema) ==
    /\ decl' = schema
    /\ LET result == struct(schema)
       IN  IF IsThrown(result)
           THEN template' = NoTemplate /\ err' = result.thrown
           ELSE template' = result /\ err' = "ok"
    /\ op' = "struct"
    /\ UNCHANGED <<inst, msg, store, byteOffset, byteLength>>

\* the caller compiles one template, from any field list
DefineLayout ==
    /\ op = "init"
    /\ \/ \E n \in 0..MaxFields : \E kinds \in [1..n -> MemberKinds] :
              CallStruct(GeneratedSchema(n, kinds))
       \/ \E schema \in TestSchemas : CallStruct(schema)
       \/ \E n \in 0..(MaxFields - 1) : \E kinds \in [1..n -> MemberKinds] :
              \E p \in 1..(n + 1), type \in UnregisteredTypes, literal \in BOOLEAN :
                  CallStruct(WithUnregistered(n, kinds, p, type, literal))
       \/ \E n \in 2..MaxFields : \E kinds \in [1..n -> MemberKinds] :
              \E p \in 1..(n - 1) : CallStruct(WithDuplicate(n, kinds, p))

\* the caller compiles one template, from a field list of the byte-level
\* specification
DefineWireLayout ==
    /\ template = NoTemplate
    /\ \E schema \in WireSchemas : CallStruct(schema)

\* buffer = new Uint8Array(new ArrayBuffer(offset + length), offset)
AllocBuffer ==
    /\ op = "struct"
    /\ err = "ok"
    /\ \E offset \in Offsets, length \in Lengths(template) :
          /\ store' = [b \in 1..(offset + length) |-> 0]
          /\ byteOffset' = offset
          /\ byteLength' = length
    /\ op' = "alloc"
    /\ err' = "ok"
    /\ UNCHANGED <<decl, template, inst, msg>>

\* new Uint8Array(buffer.buffer).fill(byte)
Fill ==
    /\ op \in {"alloc", "read"}
    /\ \E byte \in FillBytes : store' = [b \in 1..Len(store) |-> byte]
    /\ op' = "fill"
    /\ err' = "ok"
    /\ UNCHANGED <<decl, template, inst, msg, byteOffset, byteLength>>

\* inst = struct.new(T)
CallNew ==
    /\ op \in {"alloc", "fill"}
    /\ inst = NoInstance
    /\ inst' = new(template)
    /\ op' = "new"
    /\ err' = "ok"
    /\ UNCHANGED <<decl, template, msg, store, byteOffset, byteLength>>

\* inst.name = value, for every member
AssignFields ==
    /\ op = "new"
    /\ \E row \in Rows :
          inst' = [inst EXCEPT !.fields =
                      [name \in DOMAIN inst.template.schema |->
                          RowValue(inst.template.schema[name], row)]]
    /\ op' = "assign"
    /\ err' = "ok"
    /\ UNCHANGED <<decl, template, msg, store, byteOffset, byteLength>>

\* struct.write(inst, buffer)
CallWrite ==
    /\ inst # NoInstance
    /\ LET r == write(inst, store, byteOffset, byteLength)
       IN  /\ store' = r.bytes
           /\ err' = r.err
    /\ op' = "write"
    /\ UNCHANGED <<decl, template, inst, msg, byteOffset, byteLength>>

\* msg = struct.read(T, buffer)
CallRead ==
    /\ op \notin {"init", "struct"}
    /\ LET r == read(template, store, byteOffset, byteLength)
       IN  /\ msg' = IF r.err = "ok" THEN r.result ELSE msg
           /\ err' = r.err
    /\ op' = "read"
    /\ UNCHANGED <<decl, template, inst, store, byteOffset, byteLength>>

\* msg.name[i] = value, on a member that holds a typed array
AssignElement ==
    /\ op = "read"
    /\ err = "ok"
    /\ \E name \in DOMAIN msg.fields :
          /\ isArrayLike(msg.fields[name])
          /\ \E i \in 0..(msg.fields[name].length - 1) :
                LET array == msg.fields[name]
                    value == Sample(array.type, "hi")
                IN  IF array.shared
                    THEN /\ store' = StoreElement(array, i, value, store)
                         /\ msg' = msg
                    ELSE /\ store' = store
                         /\ msg' = [msg EXCEPT !.fields[name].elems[i + 1] =
                                        Converted(array.type, value)]
    /\ op' = "assignElement"
    /\ err' = "ok"
    /\ UNCHANGED <<decl, template, inst, byteOffset, byteLength>>

LayoutNext == DefineLayout

LayoutSpec == Init /\ [][LayoutNext]_vars

Next ==
    \/ DefineWireLayout
    \/ AllocBuffer
    \/ Fill
    \/ CallNew
    \/ AssignFields
    \/ CallWrite
    \/ CallRead
    \/ AssignElement

Spec == Init /\ [][Next]_vars

-----------------------------------------------------------------------------
(* Properties of the compiled layout.                                      *)

Compiled == template # NoTemplate

\* every member's type is a key of TypedArray
Registered(schema) == \A i \in 1..Len(schema) : schema[i].type \in PropertyType

UniqueNames(schema) ==
    \A i, j \in 1..Len(schema) : schema[i].name = schema[j].name => i = j

\* the compiled entry of the i-th declared member
Entry(i) == template.schema[decl[i].name]

ElementWidth(i) == BYTES_PER_ELEMENT(decl[i].type)

\* first byte of the i-th member, and the byte after its last
StartByte(i) == Entry(i).index * ElementWidth(i)
EndByte(i) == StartByte(i) + ElementWidth(i) * decl[i].count

\* s is a non-negative multiple of a (0 is the only multiple of 0)
IsMultipleOf(s, a) ==
    /\ s # NaN
    /\ s >= 0
    /\ IF a = 0 THEN s = 0 ELSE s % a = 0

\* the smallest multiple of m (m > 0) that is >= x
SmallestMultipleAtLeast(m, x) == CHOOSE k \in x..(x + m - 1) : k % m = 0

\* C2: for any field list, the empty one included, the template's size is
\* a non-negative multiple of its alignment.
C2_SizeMultipleOfAlignment ==
    (Compiled /\ Registered(decl)) => IsMultipleOf(template.size, template.alignment)

\* C3: minimal natural padding. Every member starts at the smallest
\* multiple of its element width that is >= the end byte of the member
\* before it (0 for the first), the size is the smallest multiple of the
\* alignment that is >= the end byte of the last member; Message has size 16
\* and indices 0, 8, 3, and BoundaryMessage puts double at index 2 with
\* size 24.
C3_MinimalPadding ==
    (Compiled /\ decl # <<>> /\ Registered(decl) /\ UniqueNames(decl)) =>
        /\ \A i \in 1..Len(decl) :
              StartByte(i) =
                  SmallestMultipleAtLeast(ElementWidth(i),
                                          IF i = 1 THEN 0 ELSE EndByte(i - 1))
        /\ template.size =
              SmallestMultipleAtLeast(template.alignment, EndByte(Len(decl)))
        /\ decl = Message =>
              /\ template.size = 16
              /\ template.schema["big"].index = 0
              /\ template.schema["smol"].index = 8
              /\ template.schema["float"].index = 3
        /\ decl = BoundaryMessage =>
              /\ template.size = 24
              /\ template.schema["double"].index = 2

C3_Witness ==
    /\ Compiled
    /\ decl = BoundaryMessage
    /\ template.schema["double"].index = 2
    /\ template.schema["float"].index = 3

\* C4: with unique names and counts >= 1 the members' byte ranges are
\* pairwise disjoint, strictly increasing in declaration order, contained
\* in [0, size), and each starts at a multiple of its element width.
C4_DisjointIncreasingRanges ==
    (Compiled /\ Registered(decl) /\ UniqueNames(decl)
        /\ \A i \in 1..Len(decl) : decl[i].count >= 1) =>
        /\ \A i \in 1..Len(decl) :
              /\ 0 <= StartByte(i)
              /\ StartByte(i) < EndByte(i)
              /\ EndByte(i) <= template.size
              /\ StartByte(i) % ElementWidth(i) = 0
        /\ \A i, j \in 1..Len(decl) : i < j => EndByte(i) <= StartByte(j)

C4_Witness ==
    /\ Compiled
    /\ Len(decl) = 2
    /\ decl[1].count = 2
    /\ ElementWidth(1) < ElementWidth(2)
    /\ EndByte(1) < StartByte(2)

\* C12: for a template of at least one member and a buffer that starts at
\* a multiple B of the alignment, the address B + index * width of every
\* member is a multiple of the member's element width, and every element
\* width divides the alignment.
C12_AddressesAligned ==
    (Compiled /\ decl # <<>> /\ Registered(decl)) =>
        \A name \in DOMAIN template.schema :
            LET member == template.schema[name]
                width  == BYTES_PER_ELEMENT(member.type)
            IN  /\ template.alignment % width = 0
                /\ \A k \in Offsets :
                      (k * template.alignment + member.index * width) % width = 0

\* a narrow member lies after a wider one
C12_Witness ==
    /\ Compiled
    /\ Registered(decl)
    /\ template.alignment = 8
    /\ \E name \in DOMAIN template.schema :
          /\ BYTES_PER_ELEMENT(template.schema[name].type) = 2
          /\ template.schema[name].index > 0

\* the byte after the i-th declared member when every declared member,
\* shadowed or not, is laid out in turn
RECURSIVE PackedEnd(_)
PackedEnd(i) ==
    IF i = 0 THEN 0
    ELSE SmallestMultipleAtLeast(ElementWidth(i), PackedEnd(i - 1))
             + ElementWidth(i) * decl[i].count

\* the last declared member of that name
LastNamed(name) ==
    CHOOSE i \in 1..Len(decl) :
        /\ decl[i].name = name
        /\ \A j \in (i + 1)..Len(decl) : decl[j].name # name

\* C15: struct() accepts a field list that repeats a name: the schema entry
\* of a name has the type, count and index of the last member of that
\* name, and every member, a shadowed one too, takes its bytes in the
\* indices of the members after it, in the size and in the alignment.
C15_DuplicateNameShadows ==
    (op = "struct" /\ Registered(decl) /\ ~UniqueNames(decl)) =>
        /\ err = "ok"
        /\ Compiled
        /\ DOMAIN template.schema = {decl[i].name : i \in 1..Len(decl)}
        /\ \A name \in DOMAIN template.schema :
              LET i == LastNamed(name)
              IN  /\ template.schema[name].type = decl[i].type
                  /\ template.schema[name].count = decl[i].count
                  /\ template.schema[name].index * ElementWidth(i) =
                         PackedEnd(i) - ElementWidth(i) * decl[i].count
        /\ \A i \in 1..Len(decl) : template.alignment >= ElementWidth(i)
        /\ \E i \in 1..Len(decl) : template.alignment = ElementWidth(i)
        /\ template.size =
              SmallestMultipleAtLeast(template.alignment, PackedEnd(Len(decl)))

\* the shadowed member is the widest: it alone sets the alignment, and
\* the later member of its name lies after its bytes
C15_Witness ==
    /\ Compiled
    /\ Len(decl) = 2
    /\ decl[1].name = decl[2].name
    /\ decl[1].type = "f64"
    /\ decl[2].type = "u8"
    /\ template.alignment = 8
    /\ template.schema[decl[2].name].index = 8 * decl[1].count
    /\ template.size = 8 * decl[1].count + 8

\* C11: struct() on a field list with a member whose type is no key of
\* TypedArray throws: it returns no template, and no buffer is touched.
C11_UnregisteredTypeThrows ==
    (op = "struct" /\ ~Registered(decl)) =>
        /\ err # "ok"
        /\ template = NoTemplate
        /\ store = <<>>

\* C10: struct([]) yields a template whose size is 0.
C10_EmptySizeZero ==
    (Compiled /\ decl = <<>>) => template.size = 0

-----------------------------------------------------------------------------
(* Properties of new, read and write.                                      *)

\* the member's value is a scalar, or a sequence of exactly count
\* elements, as the member's count asks, and every number in it satisfies P
HoldsOnly(instance, P(_, _)) ==
    \A name \in DOMAIN instance.fields :
        LET member == instance.template.schema[name]
            value  == instance.fields[name]
        IN  IF member.count = 1
            THEN value.k = "scalar" /\ P(member.type, value)
            ELSE /\ value.k = "array"
                 /\ ~value.shared
                 /\ value.length = member.count
                 /\ \A j \in 1..value.length : P(member.type, value.elems[j])

\* the number lies between the least and the greatest value of the type
InRange(type, value) ==
    IF Len(value.n) > 1 THEN TRUE
    ELSE LET v == value.n[1]
         IN  CASE type = "i8" -> v >= 0 - 128 /\ v <= 127
               [] type \in {"u8", "u8_clamped"} -> v >= 0 /\ v <= 255
               [] type = "i16" -> v >= 0 - 32768 /\ v <= 32767
               [] type = "u16" -> v >= 0 /\ v <= 65535
               [] type \in {"u32", "u64"} -> v >= 0
               [] OTHER -> TRUE

\* the number is one the type holds exactly: in range and, for f32, an
\* integer of at most 24 significant bits
Representable(type, value) ==
    /\ InRange(type, value)
    /\ (type = "f32" /\ Len(value.n) = 1 /\ value.n[1] # 0) =>
          LET a == IF value.n[1] < 0 THEN 0 - value.n[1] ELSE value.n[1]
          IN  a < 16777216 \/ a % (2 ^ (Log2(a) - 23)) = 0

\* the two instances hold the same value in every field
SameValues(x, y) ==
    /\ DOMAIN x.fields = DOMAIN y.fields
    /\ \A name \in DOMAIN x.fields :
          LET a == x.fields[name]
              b == y.fields[name]
          IN  /\ a.k = b.k
              /\ IF a.k = "array"
                 THEN Elements(a, store) = Elements(b, store)
                 ELSE a = b

\* struct.read is called on the buffer the step before successfully wrote
\* inst to
ReadAfterWrite == op = "write" /\ err = "ok" /\ op' = "read"

\* C1 as claimed: an instance holding in-range values (exactly count of
\* them in a sequence field), written to the buffer and read back, yields
\* the same value for every field.
C1_RoundTripInRange ==
    [][(ReadAfterWrite /\ UniqueNames(decl) /\ HoldsOnly(inst, InRange)) =>
          (err' = "ok" /\ SameValues(msg', inst))]_vars

\* C1, amended: an instance holding values its field types hold exactly
\* (exactly count of them in a sequence field), written to the buffer and
\* read back, yields the same value for every field.
C1_RoundTrip ==
    [][(ReadAfterWrite /\ UniqueNames(decl) /\ HoldsOnly(inst, Representable)) =>
          (err' = "ok" /\ SameValues(msg', inst))]_vars

\* the "hi" row was written and read back
C1_Witness ==
    /\ op = "read"
    /\ err = "ok"
    /\ decl = Message
    /\ inst # NoInstance
    /\ inst.fields["float"] = FLOAT32_MAX_VALUE
    /\ HoldsOnly(inst, Representable)
    /\ SameValues(msg, inst)

RunsOnBuffer == op' \in {"read", "write"}

\* C5: with size > 0, read and write on a buffer shorter than the size
\* fail with InsufficientSpace and leave the bytes as they were.
C5_ShortBufferFails ==
    [][(RunsOnBuffer /\ template.size > 0 /\ byteLength < template.size) =>
          (err' = "InsufficientSpace" /\ store' = store)]_vars

\* write failed on a short, filled buffer, for an instance with values
C5_Witness ==
    /\ op = "write"
    /\ err = "InsufficientSpace"
    /\ template.size > 0
    /\ byteLength = template.size - 1
    /\ inst.fields # new(template).fields
    /\ \E b \in 1..Len(store) : store[b] # 0

Misaligned ==
    /\ Compiled
    /\ op \in {"read", "write"}
    /\ template.alignment > 1
    /\ byteOffset % template.alignment # 0

\* C6 as claimed: with alignment > 1, read and write on a buffer that
\* starts at no multiple of the alignment fail with MisalignedBuffer,
\* whatever its length.
C6_MisalignedWhateverLength == Misaligned => err = "MisalignedBuffer"

\* C6, amended: with alignment > 1, read and write on a buffer that starts
\* at no multiple of the alignment fail: with MisalignedBuffer when the
\* buffer is at least size bytes long, with InsufficientSpace when it is
\* shorter.
C6_Misaligned ==
    Misaligned =>
        err = (IF byteLength < template.size
               THEN "InsufficientSpace" ELSE "MisalignedBuffer")

\* the start is a multiple of an element size, not of the alignment
C6_Witness ==
    /\ Misaligned
    /\ err = "MisalignedBuffer"
    /\ byteOffset = 4
    /\ byteLength > template.size

\* C7: if write fails, every byte of the buffer is as before the call,
\* whatever the instance holds.
C7_FailedWriteLeavesBuffer ==
    [][(op' = "write" /\ err' # "ok") => store' = store]_vars

\* the elements the buffer holds now where the member lies
BufferElements(name) ==
    LET member == template.schema[name]
        view   == ViewOn(member.type, byteOffset,
                         byteLength \div BYTES_PER_ELEMENT(member.type))
    IN  [j \in 1..member.count |-> ElementAt(view, member.index + j - 1, store)]

\* the members for which the last read returned a sequence
Sequences(instance) ==
    {name \in DOMAIN instance.fields : instance.fields[name].k = "array"}

ReadReturnsElements ==
    (op = "read" /\ err = "ok") =>
        \A name \in Sequences(msg) :
            Elements(msg.fields[name], store) = BufferElements(name)

ZeroOf(type) ==
    [k |-> "scalar", big |-> type \in {"i64", "u64"}, n |-> <<0>>]

\* C9: struct.new succeeds, leaves the buffer alone, and gives every
\* member the zero of its type for count 1, and count zeros otherwise.
C9_NewIsZero ==
    [][op' = "new" =>
          /\ err' = "ok"
          /\ store' = store
          /\ inst'.template = template
          /\ DOMAIN inst'.fields = DOMAIN template.schema
          /\ \A name \in DOMAIN template.schema :
                LET member == template.schema[name]
                    value  == inst'.fields[name]
                IN  IF member.count = 1
                    THEN value = ZeroOf(member.type)
                    ELSE /\ value.k = "array"
                         /\ value.type = member.type
                         /\ ~value.shared
                         /\ value.elems = [j \in 1..member.count |->
                                              ZeroOf(member.type)]]_vars

\* struct.new(Message) ran while the buffer held other bytes than zeros
C9_Witness ==
    /\ op = "new"
    /\ decl = Message
    /\ inst.fields["big"] = ZeroOf("i64")
    /\ Len(inst.fields["smol"].elems) = 3
    /\ \E b \in 1..Len(store) : store[b] # 0

\* C13: once struct() has returned it, the template stays as compiled
\* through every struct.new, struct.read, struct.write (failing or not) and
\* assignment to an instance: its size, alignment and schema are the same,
\* and it is the template every instance refers to.
C13_TemplateUnchanged ==
    [][Compiled =>
          /\ template' = template
          /\ inst' # NoInstance => inst'.template = template
          /\ msg' # NoInstance => msg'.template = template]_vars

\* an instance was built, assigned, and read back after a write
C13_Witness ==
    /\ op = "assignElement"
    /\ decl = Message
    /\ template = struct(decl)
    /\ inst # NoInstance
    /\ inst.fields # new(template).fields
    /\ msg.template = template

\* a member of count 1 holds a one-element sequence
Boxed(instance, name) ==
    /\ instance.template.schema[name].count = 1
    /\ isArrayLike(instance.fields[name])
    /\ instance.fields[name].length = 1

\* the instance with the scalar v in place of every such sequence [v]
Unboxed(instance) ==
    [instance EXCEPT !.fields =
        [name \in DOMAIN instance.fields |->
            IF Boxed(instance, name)
            THEN ElementAt(instance.fields[name], 0, <<>>)
            ELSE instance.fields[name]]]

\* C14: struct.write of an instance whose members of count 1 hold
\* one-element sequences [v] ends as, and leaves the bytes of, struct.write
\* of the instance holding the scalars v.
C14_BoxedScalarSameBytes ==
    [][(op' = "write" /\ \E name \in DOMAIN inst.fields : Boxed(inst, name)) =>
          LET r == write(Unboxed(inst), store, byteOffset, byteLength)
          IN  store' = r.bytes /\ err' = r.err]_vars

\* a boxed BoundaryMessage was written over a filled buffer
C14_Witness ==
    /\ op = "write"
    /\ err = "ok"
    /\ decl = BoundaryMessage
    /\ Boxed(inst, "double")
    /\ Unboxed(inst).fields["float"] = FLOAT32_MAX_VALUE
    /\ store[byteOffset + 13] = 255
    /\ store[byteOffset + 12] = 170

\* any element value
AnyNumber(type, value) == TRUE

\* the bytes of the buffer, counted from 0, that lie in a member's range
MemberBytes(tpl) ==
    UNION {LET member == tpl.schema[name]
               width  == BYTES_PER_ELEMENT(member.type)
           IN  (member.index * width)..((member.index + member.count) * width - 1) :
             name \in DOMAIN tpl.schema}

\* C16: a successful struct.write of an instance holding scalars in its
\* members of count 1 and exactly count elements in the others changes
\* bytes in the members' ranges only: the padding bytes, the bytes of the
\* buffer from size on and the bytes of the store before the buffer are as
\* they were.
C16_WriteKeepsOtherBytes ==
    [][(op' = "write" /\ err' = "ok" /\ HoldsOnly(inst, AnyNumber)) =>
          /\ Len(store') = Len(store)
          /\ \A b \in 1..Len(store) :
                store'[b] # store[b] =>
                    (b - 1 - byteOffset) \in MemberBytes(template)]_vars

\* Message was written to a filled buffer that starts at byte 8 of its
\* store and is longer than the size: the padding byte, the byte after the
\* size and the bytes before the buffer hold what they were filled with
C16_Witness ==
    /\ op = "write"
    /\ err = "ok"
    /\ decl = Message
    /\ HoldsOnly(inst, AnyNumber)
    /\ byteOffset = 8
    /\ byteLength = template.size + 1
    /\ store[byteOffset + 9] # 170
    /\ store[byteOffset + 12] = 170
    /\ store[byteOffset + 17] = 170
    /\ store[byteOffset] = 170

\* C17: on the template of the empty field list (alignment 0), struct.read
\* and struct.write fail at the alignment check of createViews, whatever
\* the buffer's length and start, and leave the bytes as they were.
C17_EmptyTemplateRejectsAll ==
    [][(RunsOnBuffer /\ decl = <<>>) =>
          /\ template.alignment = 0
          /\ err' = "MisalignedBuffer"
          /\ store' = store]_vars

\* struct.write failed so on a buffer of 8 bytes at the start of its store
C17_Witness ==
    /\ op = "write"
    /\ decl = <<>>
    /\ Compiled
    /\ template.alignment = 0
    /\ byteOffset = 0
    /\ byteLength = 8
    /\ err = "MisalignedBuffer"

=============================================================================
